---- MODULE Spec2Model ----
(***************************************************************************)
(* Property search and ranking engine of the listings marketplace backend: *)
(* PostQueryHelper (predicate building, relevance scoring, distance,       *)
(* ranking and pagination), PostService (nearby search, moderation and     *)
(* ownership operations) and the posts controller (searchPosts,            *)
(* getNearbyPosts).                                                        *)
(*                                                                         *)
(* Representation choices                                                  *)
(*   - text is a sequence of one-character strings;                        *)
(*   - latitude / longitude are integers in micro-degrees;                 *)
(*   - lengths before rounding are integers in centimetres, the radius of  *)
(*     a request is given in centimetres (it is a float in metres in the   *)
(*     code), annotated distances are whole metres as in the code;         *)
(*   - relevance scores are integers in hundredths of a point;             *)
(*   - NULL stands for an absent (undefined) numeric field and NaN for the *)
(*     result of parsing text that is no number; both are integers outside *)
(*     every range the model uses, so that they compare with numbers;      *)
(*   - an absent string field is the empty string (both are falsy in the   *)
(*     code's tests), the empty sequence for text;                         *)
(*   - a boolean filter is "true" or "false", and "" when undefined;        *)
(*   - a user document is the record of its identifier, null in its place  *)
(*     the record of the empty identifier;                                 *)
(*   - a response records, besides what is sent, the members of the JSON   *)
(*     document (body) and how often each store query was issued.          *)
(***************************************************************************)
EXTENDS Integers, Sequences, FiniteSets, TLC

VARIABLES posts, nextId, users, resp

vars == <<posts, nextId, users, resp>>

NULL == 0 - 1000000

(***************************************************************************)
(* Bounds of the model                                                     *)
(***************************************************************************)
MaxPosts == 2

(***************************************************************************)
(* Generic helpers on sequences                                            *)
(***************************************************************************)
Range(s) == {s[i] : i \in 1..Len(s)}

Min(a, b) == IF a <= b THEN a ELSE b

\* Array.prototype.slice(from, to) with 0-based, end-exclusive indices
Slice(s, from, to) ==
  LET n == Len(s)
      index(k) == IF k < 0 THEN (IF n + k < 0 THEN 0 ELSE n + k) ELSE Min(k, n)
  IN  SubSeq(s, index(from) + 1, index(to))

\* Math.ceil(a / b) for a >= 0, b > 0
CeilDiv(a, b) == (a + b - 1) \div b

(***************************************************************************)
(* Text                                                                    *)
(***************************************************************************)
toLowerCase(s) ==
  [i \in 1..Len(s) |->
     CASE s[i] = "A" -> "a"
       [] s[i] = "B" -> "b"
       [] s[i] = "M" -> "m"
       [] OTHER -> s[i]]

\* String.prototype.includes
includes(s, q) ==
  \E i \in 0..(Len(s) - Len(q)) : SubSeq(s, i + 1, i + Len(q)) = q

\* new RegExp(text, "i").test(s): the text is taken as a pattern, not
\* escaped; of the pattern characters the model has ".", which stands for
\* any one character, and every other character stands for itself in
\* either letter case
regexTest(pattern, s) ==
  LET p == toLowerCase(pattern)
      t == toLowerCase(s)
  IN  \E off \in 0..(Len(t) - Len(p)) :
        \A k \in 1..Len(p) : p[k] = "." \/ p[k] = t[off + k]

(***************************************************************************)
(* Javascript truthiness of the values a request field can hold            *)
(***************************************************************************)
NaN == 0 - 1000001

\* if (x) for a number-or-undefined x: undefined, NaN and 0 are falsy
truthy(x) == x \notin {NULL, NaN, 0}

\* parseInt(raw) || dflt ; a raw value is NULL, NaN (unparsable) or an integer
parseOr(raw, dflt) == IF truthy(raw) THEN raw ELSE dflt

(***************************************************************************)
(* Geography.  Coordinates in micro-degrees.                               *)
(***************************************************************************)
Center == [lat |-> 17975700, lng |-> 102633100]

PointD == [lat |-> 17975714, lng |-> 102633100]
PointB == [lat |-> 17990000, lng |-> 102633100]
PointC == [lat |-> 18040000, lng |-> 102633100]
PointZ == [lat |-> 30000, lng |-> 102633100]

\* R * c * 1000 of calculateDistance before Math.round, in centimetres,
\* tabulated from the haversine formula (R = 6371 km) for the coordinates used
haversineCm(lat1, lon1, lat2, lon2) ==
  CASE lat1 = lat2 /\ lon1 = lon2 -> 0
    [] lat1 = 17975700 /\ lon1 = 102633100 /\ lat2 = 17975714 /\ lon2 = 102633100 -> 156
    [] lat1 = 17975700 /\ lon1 = 102633100 /\ lat2 = 17990000 /\ lon2 = 102633100 -> 159009
    [] lat1 = 17975700 /\ lon1 = 102633100 /\ lat2 = 18040000 /\ lon2 = 102633100 -> 714983
    [] lat1 = 17975700 /\ lon1 = 102633100 /\ lat2 = 30000 /\ lon2 = 102633100 -> 199547080
    [] lat1 = 0 /\ lon1 = 102633100 /\ lat2 = 17975714 /\ lon2 = 102633100 -> 199880820
    [] lat1 = 0 /\ lon1 = 102633100 /\ lat2 = 17990000 /\ lon2 = 102633100 -> 200039673
    [] lat1 = 0 /\ lon1 = 102633100 /\ lat2 = 18040000 /\ lon2 = 102633100 -> 200595648
    [] lat1 = 0 /\ lon1 = 102633100 /\ lat2 = 30000 /\ lon2 = 102633100 -> 333585

\* Math.round of a non-negative length given in centimetres, in metres
roundMetres(cm) == (cm + 50) \div 100

calculateDistance(lat1, lon1, lat2, lon2) ==
  roundMetres(haversineCm(lat1, lon1, lat2, lon2))

DefaultRadiusCm == 500000

(***************************************************************************)
(* Listings                                                                *)
(***************************************************************************)
Statuses == {"pending", "approved", "rejected", "sold", "rented"}

Users == {"u1", "u2"}

\* The CreatePostData values the model submits (the third leaves listingType
\* and condition out; the houses give their number of bedrooms)
PostData ==
  { [title |-> <<"a", "M">>, description |-> <<"b">>, tags |-> <<>>,
     keywords |-> <<>>, province |-> <<"v">>, district |-> <<"c">>,
     street |-> <<"s">>, price |-> 100, area |-> 50, featured |-> FALSE,
     urgent |-> FALSE, location |-> PointD, authorId |-> "u1",
     propertyType |-> "land", bedrooms |-> NULL,
     listingType |-> "sell", condition |-> "new"],
    [title |-> <<"a">>, description |-> <<"m", "b">>, tags |-> <<>>,
     keywords |-> << <<"m">> >>, province |-> <<"v">>, district |-> <<"c">>,
     street |-> <<"s">>, price |-> 100, area |-> 80, featured |-> TRUE,
     urgent |-> FALSE, location |-> PointB, authorId |-> "u1",
     propertyType |-> "house", bedrooms |-> 2,
     listingType |-> "rent", condition |-> "good"],
    [title |-> <<"b">>, description |-> <<"b">>, tags |-> <<>>,
     keywords |-> <<>>, province |-> <<"v">>, district |-> <<"c">>,
     street |-> <<"s">>, price |-> 200, area |-> 80, featured |-> FALSE,
     urgent |-> TRUE, location |-> PointC, authorId |-> "u2",
     propertyType |-> "land", bedrooms |-> NULL,
     listingType |-> "", condition |-> ""],
    [title |-> <<"m">>, description |-> <<"b">>, tags |-> << <<"m", "a">> >>,
     keywords |-> <<>>, province |-> <<"v">>, district |-> <<"c">>,
     street |-> <<"s">>, price |-> 200, area |-> 50, featured |-> FALSE,
     urgent |-> FALSE, location |-> PointZ, authorId |-> "u2",
     propertyType |-> "house", bedrooms |-> 3,
     listingType |-> "rent", condition |-> "new"] }

\* the stored document createPost builds from its data
newPost(id, data) ==
  [_id |-> id, createdAt |-> id, status |-> "pending", viewCount |-> 0,
   title |-> data.title, description |-> data.description,
   tags |-> data.tags, keywords |-> data.keywords,
   province |-> data.province, district |-> data.district,
   street |-> data.street, price |-> data.price, area |-> data.area,
   featured |-> data.featured, urgent |-> data.urgent,
   location |-> data.location, authorId |-> data.authorId,
   propertyType |-> data.propertyType, bedrooms |-> data.bedrooms,
   listingType |-> IF data.listingType # "" THEN data.listingType ELSE "sell",
   condition |-> IF data.condition # "" THEN data.condition ELSE "good"]

Ids == {posts[i]._id : i \in 1..Len(posts)}

postById(id) == posts[CHOOSE i \in 1..Len(posts) : posts[i]._id = id]

(***************************************************************************)
(* Relevance Scorer: score in hundredths of a point                        *)
(***************************************************************************)
RECURSIVE countIncluding(_, _)
countIncluding(list, q) ==
  IF list = <<>> THEN 0
  ELSE (IF includes(toLowerCase(Head(list)), q) THEN 1 ELSE 0)
       + countIncluding(Tail(list), q)

\* a scorer that gives a description match the weight of a title match
calculateRelevanceScore_descriptionAsTitle(post, searchText) ==
  IF searchText = <<>> THEN 0
  ELSE
    LET searchLower == toLowerCase(searchText)
        has(field) == includes(toLowerCase(field), searchLower)
    IN  (IF has(post.title)
           THEN 1000 + (IF toLowerCase(post.title) = searchLower THEN 500 ELSE 0)
           ELSE 0)
      + 800 * countIncluding(post.tags, searchLower)
      + 700 * countIncluding(post.keywords, searchLower)
      + (IF has(post.province) THEN 600 ELSE 0)
      + (IF has(post.district) THEN 500 ELSE 0)
      + (IF has(post.street) THEN 400 ELSE 0)
      + (IF has(post.description) THEN 1000 ELSE 0)
      + (IF post.featured THEN 200 ELSE 0)
      + (IF post.urgent THEN 100 ELSE 0)
      + (IF post.viewCount # 0 THEN Min(post.viewCount, 300) ELSE 0)

\* a scorer whose popularity boost has no cap
calculateRelevanceScore_uncappedViews(post, searchText) ==
  IF searchText = <<>> THEN 0
  ELSE
    LET searchLower == toLowerCase(searchText)
        has(field) == includes(toLowerCase(field), searchLower)
    IN  (IF has(post.title)
           THEN 1000 + (IF toLowerCase(post.title) = searchLower THEN 500 ELSE 0)
           ELSE 0)
      + 800 * countIncluding(post.tags, searchLower)
      + 700 * countIncluding(post.keywords, searchLower)
      + (IF has(post.province) THEN 600 ELSE 0)
      + (IF has(post.district) THEN 500 ELSE 0)
      + (IF has(post.street) THEN 400 ELSE 0)
      + (IF has(post.description) THEN 300 ELSE 0)
      + (IF post.featured THEN 200 ELSE 0)
      + (IF post.urgent THEN 100 ELSE 0)
      + post.viewCount

calculateRelevanceScore(post, searchText) ==
  IF searchText = <<>> THEN 0
  ELSE
    LET searchLower == toLowerCase(searchText)
        has(field) == includes(toLowerCase(field), searchLower)
    IN  (IF has(post.title)
           THEN 1000 + (IF toLowerCase(post.title) = searchLower THEN 500 ELSE 0)
           ELSE 0)
      + 800 * countIncluding(post.tags, searchLower)
      + 700 * countIncluding(post.keywords, searchLower)
      + (IF has(post.province) THEN 600 ELSE 0)
      + (IF has(post.district) THEN 500 ELSE 0)
      + (IF has(post.street) THEN 400 ELSE 0)
      + (IF has(post.description) THEN 300 ELSE 0)
      + (IF post.featured THEN 200 ELSE 0)
      + (IF post.urgent THEN 100 ELSE 0)
      + (IF post.viewCount # 0 THEN Min(post.viewCount, 300) ELSE 0)

(***************************************************************************)
(* Predicate Builder                                                       *)
(***************************************************************************)
\* a range query that keeps every bound that is given and not zero, NaN
\* included
buildRangeQuery_keepsNaN(min, max) ==
  [gte |-> IF min \notin {NULL, 0} THEN min ELSE NULL,
   lte |-> IF max \notin {NULL, 0} THEN max ELSE NULL]

\* buildRangeQuery: a bound is kept only when it is truthy
buildRangeQuery(min, max) ==
  [gte |-> IF truthy(min) THEN min ELSE NULL,
   lte |-> IF truthy(max) THEN max ELSE NULL]

matchesRange(value, range) ==
  /\ (range.gte # NULL => value >= range.gte)
  /\ (range.lte # NULL => value <= range.lte)

\* the $or clause of buildTextSearchQuery, evaluated on one document
matchesText(post, searchText) ==
  \/ regexTest(searchText, post.title)
  \/ regexTest(searchText, post.description)
  \/ regexTest(searchText, post.street)
  \/ regexTest(searchText, post.district)
  \/ regexTest(searchText, post.province)
  \/ \E i \in 1..Len(post.tags) : regexTest(searchText, post.tags[i])
  \/ \E i \in 1..Len(post.keywords) : regexTest(searchText, post.keywords[i])

NoNear == [on |-> FALSE, lat |-> 0, lng |-> 0, maxDistance |-> 0]

\* a query that keeps the boolean filters only when they are true
buildQuery_flagsWhenTruthy(params) ==
  [status |-> "approved",
   text |-> params.searchText,
   near |-> IF truthy(params.latitude) /\ truthy(params.longitude)
              THEN [on |-> TRUE, lat |-> params.latitude,
                    lng |-> params.longitude,
                    maxDistance |-> IF params.radius = NULL
                                      THEN DefaultRadiusCm ELSE params.radius]
              ELSE NoNear,
   propertyType |-> params.propertyType,
   listingType |-> params.listingType,
   condition |-> params.condition,
   featured |-> IF params.featured = "true" THEN "true" ELSE "",
   urgent |-> IF params.urgent = "true" THEN "true" ELSE "",
   province |-> params.province,
   price |-> buildRangeQuery(params.minPrice, params.maxPrice),
   area |-> buildRangeQuery(params.minArea, params.maxArea),
   bedrooms |-> IF truthy(params.bedrooms) THEN params.bedrooms ELSE NULL,
   unknownField |-> FALSE]

\* the query object advancedSearch builds from its parameters
buildQuery(params) ==
  [status |-> "approved",
   text |-> params.searchText,
   near |-> IF truthy(params.latitude) /\ truthy(params.longitude)
              THEN [on |-> TRUE, lat |-> params.latitude,
                    lng |-> params.longitude,
                    maxDistance |-> IF params.radius = NULL
                                      THEN DefaultRadiusCm ELSE params.radius]
              ELSE NoNear,
   propertyType |-> params.propertyType,
   listingType |-> params.listingType,
   condition |-> params.condition,
   featured |-> params.featured,
   urgent |-> params.urgent,
   province |-> params.province,
   price |-> buildRangeQuery(params.minPrice, params.maxPrice),
   area |-> buildRangeQuery(params.minArea, params.maxArea),
   bedrooms |-> IF truthy(params.bedrooms) THEN params.bedrooms ELSE NULL,
   unknownField |-> FALSE]

\* the sort document of the switch on sortBy
buildSort(sortBy) ==
  CASE sortBy = "newest" -> [field |-> "createdAt", dir |-> 0 - 1]
    [] sortBy = "oldest" -> [field |-> "createdAt", dir |-> 1]
    [] sortBy = "price_asc" -> [field |-> "price", dir |-> 1]
    [] sortBy = "price_desc" -> [field |-> "price", dir |-> 0 - 1]
    [] sortBy = "area_asc" -> [field |-> "area", dir |-> 1]
    [] sortBy = "area_desc" -> [field |-> "area", dir |-> 0 - 1]
    [] sortBy = "distance" -> [field |-> "", dir |-> 0]
    [] OTHER -> [field |-> "createdAt", dir |-> 0 - 1]

(***************************************************************************)
(* The store (Post collection): predicate find / count and the native      *)
(* point-radius query.  The geospatial index measures the same great       *)
(* circle as calculateDistance, without rounding.                          *)
(***************************************************************************)
validPoint(lat, lng) ==
  /\ lat >= 0 - 90000000 /\ lat <= 90000000
  /\ lng >= 0 - 180000000 /\ lng <= 180000000

\* the store refuses a $near query whose centre is no point of the globe
storeRejects(query) ==
  query.near.on /\ ~validPoint(query.near.lat, query.near.lng)

storeDistance(near, post) ==
  haversineCm(near.lat, near.lng, post.location.lat, post.location.lng)

\* a predicate whose point-radius clause has no distance cap
matches_withoutMaxDistance(query, post) ==
  /\ post.status = query.status
  /\ (query.text # <<>> => matchesText(post, query.text))
  /\ (query.propertyType # "" => post.propertyType = query.propertyType)
  /\ (query.listingType # "" => post.listingType = query.listingType)
  /\ (query.condition # "" => post.condition = query.condition)
  /\ (query.featured # "" => post.featured = (query.featured = "true"))
  /\ (query.urgent # "" => post.urgent = (query.urgent = "true"))
  /\ (query.province # <<>> => regexTest(query.province, post.province))
  /\ matchesRange(post.price, query.price)
  /\ matchesRange(post.area, query.area)
  /\ (query.bedrooms # NULL => post.bedrooms = query.bedrooms)
  /\ ~query.unknownField

matches(query, post) ==
  /\ post.status = query.status
  /\ (query.text # <<>> => matchesText(post, query.text))
  /\ (query.near.on => storeDistance(query.near, post) <= query.near.maxDistance)
  /\ (query.propertyType # "" => post.propertyType = query.propertyType)
  /\ (query.listingType # "" => post.listingType = query.listingType)
  /\ (query.condition # "" => post.condition = query.condition)
  /\ (query.featured # "" => post.featured = (query.featured = "true"))
  /\ (query.urgent # "" => post.urgent = (query.urgent = "true"))
  /\ (query.province # <<>> => regexTest(query.province, post.province))
  /\ matchesRange(post.price, query.price)
  /\ matchesRange(post.area, query.area)
  /\ (query.bedrooms # NULL => post.bedrooms = query.bedrooms)
  /\ ~query.unknownField

matching(query) == {i \in 1..Len(posts) : matches(query, posts[i])}

\* a count taken before the text clause is folded into the query
countDocuments_withoutText(query) ==
  Cardinality(matching([query EXCEPT !.text = <<>>]))

\* Post.countDocuments(query)
countDocuments(query) == Cardinality(matching(query))

\* the value the store orders a document by: the sort field, else the
\* distance of a $near query, else nothing (natural order)
sortKey(post, sortQuery, query) ==
  CASE sortQuery.field = "createdAt" -> sortQuery.dir * post.createdAt
    [] sortQuery.field = "price" -> sortQuery.dir * post.price
    [] sortQuery.field = "area" -> sortQuery.dir * post.area
    [] OTHER -> IF query.near.on THEN storeDistance(query.near, post) ELSE 0

RECURSIVE Perms(_)
Perms(S) ==
  IF S = {} THEN {<<>>}
  ELSE UNION {{<<x>> \o p : p \in Perms(S \ {x})} : x \in S}

\* The orders in which the store may deliver the matching documents: sorted
\* by the key; documents with equal keys come in an order the store chooses
\* anew for every query (the store promises no order among them).
StoreOrders(query, sortQuery) ==
  IF storeRejects(query) THEN {<<>>} ELSE
  {o \in Perms(matching(query)) :
     \A i \in 1..(Len(o) - 1) :
       sortKey(posts[o[i]], sortQuery, query)
         <= sortKey(posts[o[i + 1]], sortQuery, query)}

\* Post.find(query).sort(sortQuery).skip(skip).limit(limit).lean(), the
\* store having delivered the matches in the given order
find(order, skip, limit) ==
  LET page == Slice(order, skip, skip + limit)
  IN  [i \in 1..Len(page) |-> posts[page[i]]]

(***************************************************************************)
(* Ranking and Pagination Orchestrator                                     *)
(***************************************************************************)
\* an insertion in front of the elements of equal score
RECURSIVE insertByScore_beforeEqual(_, _)
insertByScore_beforeEqual(x, sorted) ==
  IF sorted = <<>> THEN <<x>>
  ELSE IF Head(sorted).relevanceScore > x.relevanceScore
         THEN <<Head(sorted)>> \o insertByScore_beforeEqual(x, Tail(sorted))
         ELSE <<x>> \o sorted

\* where a new element goes in an array sorted by descending score: behind
\* every element whose score is not lower (Array.prototype.sort is stable)
RECURSIVE insertByScore(_, _)
insertByScore(x, sorted) ==
  IF sorted = <<>> THEN <<x>>
  ELSE IF Head(sorted).relevanceScore >= x.relevanceScore
         THEN <<Head(sorted)>> \o insertByScore(x, Tail(sorted))
         ELSE <<x>> \o sorted

\* the scored candidates left in fetch order
sortByRelevance_unsorted(list) == list

\* processedPosts.sort((a, b) => b.relevanceScore - a.relevanceScore)
RECURSIVE sortByRelevance(_)
sortByRelevance(list) ==
  IF list = <<>> THEN <<>>
  ELSE insertByScore(list[Len(list)], sortByRelevance(SubSeq(list, 1, Len(list) - 1)))

WindowFactor == 5

\* What the store does with the queries of one search: it answers them all,
\* or the find, the count or the user lookup fails (connection lost, time
\* limit, ...).
StoreOutcomes == {"ok", "findFails", "countFails", "usersFails"}

\* the well-formed object ids: those of the users and one that was never
\* given to a user
ObjectIds == Users \cup {"u9"}

\* mongoose.isValidObjectId
isValidObjectId(id) == id \in ObjectIds

\* the lean user document of User.find(...).select("name email avatar"),
\* reduced to its identifier
userRecord(id) == [_id |-> id]

\* null in place of a user document
NoUser == userRecord("")

\* the identifiers advancedSearch looks up: the truthy, well-formed ones
authorIds(fetched) ==
  {fetched[i].authorId :
     i \in {j \in 1..Len(fetched) :
              fetched[j].authorId # "" /\ isValidObjectId(fetched[j].authorId)}}

\* User.find({ _id: { $in: authorIds } })
findUsers(ids) == {userRecord(id) : id \in ids \cap users}

\* a resolution that does not look at what the lookup found
resolveAuthor_unchecked(post, found) ==
  [post EXCEPT !.authorId = userRecord(post.authorId)]

\* the loop over the fetched posts: the reference is replaced by the user
\* document found for it, by null when there is none
resolveAuthor(post, found) ==
  IF post.authorId # "" /\ userRecord(post.authorId) \in found
    THEN [post EXCEPT !.authorId = userRecord(post.authorId)]
    ELSE [post EXCEPT !.authorId = NoUser]

\* relevance mode chosen whenever there is free text
useRelevanceSort_textOnly(searchText, sortBy) == searchText # <<>>

\* const useRelevanceSort = searchText && sortBy !== "distance"
useRelevanceSort(searchText, sortBy) ==
  searchText # <<>> /\ sortBy # "distance"

NoCenter == [latitude |-> NULL, longitude |-> NULL, radius |-> NULL]

NoRange == [min |-> NULL, max |-> NULL]

\* the searchInfo part of the result of advancedSearch
searchInfo(params) ==
  LET hasGeo == truthy(params.latitude) /\ truthy(params.longitude)
  IN  [hasGeospatialFilter |-> hasGeo,
       searchCenter |->
         IF hasGeo
           THEN [latitude |-> params.latitude, longitude |-> params.longitude,
                 radius |-> IF params.radius = NULL
                              THEN DefaultRadiusCm ELSE params.radius]
           ELSE NoCenter,
       appliedFilters |->
         [searchText |-> params.searchText,
          propertyType |-> params.propertyType,
          listingType |-> params.listingType,
          priceRange |->
            IF truthy(params.minPrice) \/ truthy(params.maxPrice)
              THEN [min |-> params.minPrice, max |-> params.maxPrice]
              ELSE NoRange,
          areaRange |->
            IF truthy(params.minArea) \/ truthy(params.maxArea)
              THEN [min |-> params.minArea, max |-> params.maxArea]
              ELSE NoRange,
          location |-> [province |-> params.province],
          condition |-> params.condition,
          featured |-> params.featured,
          urgent |-> params.urgent]]

NoSearchInfo == searchInfo([latitude |-> NULL, longitude |-> NULL,
                            radius |-> NULL, searchText |-> <<>>,
                            propertyType |-> "", listingType |-> "",
                            province |-> <<>>,
                            minPrice |-> NULL, maxPrice |-> NULL,
                            minArea |-> NULL, maxArea |-> NULL,
                            condition |-> "", featured |-> "", urgent |-> ""])

\* PostQueryHelper.advancedSearch after Promise.all: fetched is what the
\* find delivered, total what the count delivered, failure the part of the
\* request that failed ("" for none).  The user lookup is issued once both
\* queries have answered.
processResults(params, fetched, total, failure) ==
  LET searchText == params.searchText
      latitude == params.latitude
      longitude == params.longitude
      sortBy == IF params.sortBy = "" THEN "newest" ELSE params.sortBy
      page == params.page
      limit == params.limit
      hasGeo == truthy(latitude) /\ truthy(longitude)
      skip == (page - 1) * limit
      relevance == useRelevanceSort(searchText, sortBy)
      found == findUsers(authorIds(fetched))
      resolved == [i \in 1..Len(fetched) |-> resolveAuthor(fetched[i], found)]
      scored ==
        [i \in 1..Len(resolved) |->
           [post |-> resolved[i],
            relevanceScore |->
              IF searchText # <<>>
                THEN calculateRelevanceScore(resolved[i], searchText)
                ELSE NULL,
            distance |-> NULL]]
      processedPosts ==
        IF relevance
          THEN Slice(sortByRelevance(scored), skip, skip + limit)
          ELSE scored
      postsWithDistance ==
        IF hasGeo
          THEN [i \in 1..Len(processedPosts) |->
                  [processedPosts[i] EXCEPT !.distance =
                     calculateDistance(latitude, longitude,
                                       processedPosts[i].post.location.lat,
                                       processedPosts[i].post.location.lng)]]
          ELSE processedPosts
      failed(attempts) ==
        [ok |-> FALSE, posts |-> <<>>,
         pagination |-> [current |-> page, total |-> 0, count |-> 0,
                         totalCount |-> 0, limit |-> limit],
         hasGeospatialFilter |-> hasGeo, searchInfo |-> NoSearchInfo,
         attempts |-> attempts]
  IN  IF failure = "queries"
        THEN failed([find |-> 1, count |-> 1, users |-> 0])
      ELSE IF failure = "users"
        THEN failed([find |-> 1, count |-> 1, users |-> 1])
      ELSE [ok |-> TRUE, posts |-> postsWithDistance,
            pagination |-> [current |-> page, total |-> CeilDiv(total, limit),
                            count |-> Len(fetched), totalCount |-> total,
                            limit |-> limit],
            hasGeospatialFilter |-> hasGeo, searchInfo |-> searchInfo(params),
            attempts |-> [find |-> 1, count |-> 1, users |-> 1]]

\* the candidate window of relevance mode starts at the requested offset
fetchSkip_requestedOffset(relevance, skip) == skip

\* const fetchLimit = useRelevanceSort ? limit * 5 : limit
fetchLimit(relevance, limit) ==
  IF relevance THEN limit * WindowFactor ELSE limit

\* const fetchSkip = useRelevanceSort ? 0 : skip
fetchSkip(relevance, skip) == IF relevance THEN 0 ELSE skip

\* which part of a search fails: the two queries of Promise.all (the store
\* rejects the query or the offset, or the outcome says so), the user
\* lookup, or none
searchFailure(params, outcome) ==
  LET relevance ==
        useRelevanceSort(params.searchText,
                         IF params.sortBy = "" THEN "newest" ELSE params.sortBy)
      skip == (params.page - 1) * params.limit
  IN  IF \/ storeRejects(buildQuery(params))
         \/ fetchSkip(relevance, skip) < 0
         \/ outcome \in {"findFails", "countFails"}
        THEN "queries"
      ELSE IF outcome = "usersFails" THEN "users"
      ELSE ""

\* Post.find(query).sort(sortQuery).skip(fetchSkip).limit(fetchLimit)
findCandidates(params, order) ==
  LET relevance ==
        useRelevanceSort(params.searchText,
                         IF params.sortBy = "" THEN "newest" ELSE params.sortBy)
      skip == (params.page - 1) * params.limit
  IN  find(order, fetchSkip(relevance, skip), fetchLimit(relevance, params.limit))

\* PostQueryHelper.advancedSearch.  order is the order in which the store
\* delivers the documents matching the query, outcome what the store does
\* with the queries.  Both queries see the same store state here.
advancedSearch(params, order, outcome) ==
  processResults(params, findCandidates(params, order),
                 countDocuments(buildQuery(params)),
                 searchFailure(params, outcome))

(***************************************************************************)
(* Nearby search of PostService                                            *)
(***************************************************************************)
\* the keys of the caller's filter that name no path of the Post schema
strayKeys(filter) ==
  {k \in {"minPrice", "maxPrice", "minArea", "maxArea"} : filter[k] # NULL}

\* the query of findNearbyPosts / countNearbyPosts: the caller's filter is
\* spread over the literal last, so its keys replace the literal's and
\* every other key becomes an equality condition of the query.  Mongoose
\* removes the keys that are no schema path when strictQuery is on (the
\* default of some releases); when it is off the store is asked for
\* documents holding such a field, and no listing has one.
nearbyQuery(latitude, longitude, radiusInMeters, filter, strictQuery) ==
  [status |-> IF filter.status # "" THEN filter.status ELSE "approved",
   text |-> <<>>,
   near |-> [on |-> TRUE, lat |-> latitude, lng |-> longitude,
             maxDistance |-> radiusInMeters],
   propertyType |-> filter.propertyType,
   listingType |-> filter.listingType,
   condition |-> "", featured |-> "", urgent |-> "",
   province |-> <<>>,
   price |-> [gte |-> NULL, lte |-> NULL],
   area |-> [gte |-> NULL, lte |-> NULL],
   bedrooms |-> NULL,
   unknownField |-> ~strictQuery /\ strayKeys(filter) # {}]

\* .populate("authorId", "name email avatar") of findNearbyPosts: the
\* reference is replaced by the user document, by null when there is none
populate(post) ==
  [post EXCEPT !.authorId = IF post.authorId \in users
                              THEN userRecord(post.authorId) ELSE NoUser]

\* PostService.getNearbyPosts: the find, then the count
getNearbyPostsService(latitude, longitude, radiusInMeters, page, limit, filter, order, strictQuery) ==
  LET query == nearbyQuery(latitude, longitude, radiusInMeters, filter,
                           strictQuery)
      skip == (page - 1) * limit
      found == find(order, skip, limit)
      total == countDocuments(query)
  IN  IF storeRejects(query)
        THEN [ok |-> FALSE, posts |-> <<>>,
              pagination |-> [current |-> page, total |-> 0, count |-> 0,
                              totalCount |-> 0, limit |-> limit],
              hasGeospatialFilter |-> TRUE,
              attempts |-> [find |-> 1, count |-> 0, users |-> 0]]
        ELSE [ok |-> TRUE,
              posts |-> [i \in 1..Len(found) |->
                           [post |-> populate(found[i]), relevanceScore |-> NULL,
                            distance |->
                              calculateDistance(latitude, longitude,
                                                found[i].location.lat,
                                                found[i].location.lng)]],
              pagination |-> [current |-> page, total |-> CeilDiv(total, limit),
                              count |-> Len(found), totalCount |-> total,
                              limit |-> limit],
              hasGeospatialFilter |-> TRUE,
              attempts |-> [find |-> 1, count |-> 1, users |-> 0]]

(***************************************************************************)
(* Posts controller                                                        *)
(***************************************************************************)
\* a projection that loses the relevance score
formatPostResponse_withoutScore(r) ==
  [_id |-> r.post._id, status |-> r.post.status, price |-> r.post.price,
   area |-> r.post.area, createdAt |-> r.post.createdAt,
   propertyType |-> r.post.propertyType, authorId |-> r.post.authorId,
   location |-> r.post.location,
   distance |-> r.distance, relevanceScore |-> NULL]

\* postHelper.formatPostResponse, and the two computed fields the
\* controller copies when they are defined
formatPostResponse(r) ==
  [_id |-> r.post._id, status |-> r.post.status, price |-> r.post.price,
   area |-> r.post.area, createdAt |-> r.post.createdAt,
   propertyType |-> r.post.propertyType, authorId |-> r.post.authorId,
   location |-> r.post.location,
   distance |-> r.distance, relevanceScore |-> r.relevanceScore]

NoPagination == [page |-> 0, limit |-> 0, total |-> 0, totalPages |-> 0]

NoAttempts == [find |-> 0, count |-> 0, users |-> 0]

\* ResponseHelper.successWithPagination: body lists the members of the JSON
\* document sent; attempts and queries record, for the properties, how
\* often each store query was issued while the request was served
httpSuccess(kind, q, result) ==
  [kind |-> kind, req |-> q, code |-> 200,
   body |-> {"success", "message", "data", "pagination"},
   data |-> [i \in 1..Len(result.posts) |-> formatPostResponse(result.posts[i])],
   pagination |-> [page |-> result.pagination.current,
                   limit |-> result.pagination.limit,
                   total |-> result.pagination.totalCount,
                   totalPages |-> result.pagination.total],
   count |-> result.pagination.count,
   attempts |-> result.attempts,
   queries |-> result.attempts.find + result.attempts.count + result.attempts.users]

\* ResponseHelper.error (badRequest, internalError)
httpError(kind, q, code, attempts) ==
  [kind |-> kind, req |-> q, code |-> code,
   body |-> {"success", "message", "errors"}, data |-> <<>>,
   pagination |-> NoPagination, count |-> 0, attempts |-> attempts,
   queries |-> attempts.find + attempts.count + attempts.users]

\* a boolean filter of the query string: left out when the text is empty,
\* else true exactly for the text "true" ("" stands for undefined)
parseFlag(raw) ==
  IF raw = "" THEN "" ELSE IF raw = "true" THEN "true" ELSE "false"

\* the parameters searchPosts hands to advancedSearch
searchParams(q) ==
  LET geo == q.latitude # NULL /\ q.longitude # NULL
  IN  [searchText |-> q.search,
       latitude |-> IF geo THEN q.latitude ELSE NULL,
       longitude |-> IF geo THEN q.longitude ELSE NULL,
       radius |-> IF geo
                    THEN (IF q.radius # NULL THEN q.radius ELSE DefaultRadiusCm)
                    ELSE NULL,
       propertyType |-> q.propertyType,
       listingType |-> q.listingType,
       condition |-> q.condition,
       province |-> q.province,
       featured |-> parseFlag(q.featured),
       urgent |-> parseFlag(q.urgent),
       minPrice |-> q.minPrice,
       maxPrice |-> q.maxPrice,
       minArea |-> q.minArea,
       maxArea |-> q.maxArea,
       bedrooms |-> q.bedrooms,
       sortBy |-> q.sortBy,
       page |-> parseOr(q.page, 1),
       limit |-> parseOr(q.limit, 10)]

\* a handler that answers a failed search like an empty one
searchPostsResponse_maskingFailure(q, order, outcome) ==
  httpSuccess("searchPosts", q, advancedSearch(searchParams(q), order, outcome))

\* searchPosts: PostService.advancedSearch rethrows what PostQueryHelper
\* throws, and the handler answers every exception with an internal error
searchPostsResponse(q, order, outcome) ==
  LET result == advancedSearch(searchParams(q), order, outcome)
  IN  IF result.ok
        THEN httpSuccess("searchPosts", q, result)
        ELSE httpError("searchPosts", q, 500, result.attempts)

\* the same handler, given what the find and the count of the request
\* delivered
searchPostsReply(q, fetched, total) ==
  LET params == searchParams(q)
      result == processResults(params, fetched, total,
                               searchFailure(params, "ok"))
  IN  IF result.ok
        THEN httpSuccess("searchPosts", q, result)
        ELSE httpError("searchPosts", q, 500, result.attempts)

\* the validation of getNearbyPosts
nearbyInvalid(q) ==
  \/ q.latitude = NULL \/ q.longitude = NULL
  \/ q.latitude = NaN \/ q.longitude = NaN
  \/ ~validPoint(q.latitude, q.longitude)

nearbyRadius(q) == IF q.radius # NULL THEN q.radius ELSE DefaultRadiusCm

\* the filter getNearbyPosts (controller) builds from the query string
nearbyFilter(q) ==
  [status |-> "", propertyType |-> q.propertyType,
   listingType |-> q.listingType,
   minPrice |-> q.minPrice, maxPrice |-> q.maxPrice,
   minArea |-> q.minArea, maxArea |-> q.maxArea]

getNearbyPostsResponse(q, order, strictQuery) ==
  IF nearbyInvalid(q) THEN httpError("getNearbyPosts", q, 400, NoAttempts)
  ELSE
    LET result ==
          getNearbyPostsService(q.latitude, q.longitude, nearbyRadius(q),
                                parseOr(q.page, 1), parseOr(q.limit, 10),
                                nearbyFilter(q), order, strictQuery)
    IN  IF result.ok
          THEN httpSuccess("getNearbyPosts", q, result)
          ELSE httpError("getNearbyPosts", q, 500, result.attempts)

(***************************************************************************)
(* Requests the model submits                                              *)
(***************************************************************************)
SortKeys ==
  {"newest", "oldest", "price_asc", "price_desc", "area_asc", "area_desc",
   "distance"}

NoRequest ==
  [page |-> NULL, limit |-> NULL, search |-> <<>>, sortBy |-> "",
   latitude |-> NULL, longitude |-> NULL, radius |-> NULL,
   minPrice |-> NULL, maxPrice |-> NULL, minArea |-> NULL, maxArea |-> NULL,
   propertyType |-> "", listingType |-> "", condition |-> "",
   featured |-> "", urgent |-> "", province |-> <<>>, status |-> "",
   bedrooms |-> NULL]

\* sorting, free text and paging (page size 1, or the default 10)
SortRequests ==
  {[NoRequest EXCEPT !.page = p, !.limit = 1, !.sortBy = s, !.search = t] :
     p \in {NULL, 2}, s \in SortKeys \cup {""}, t \in {<<>>, <<"m">>}}
  \cup
  {[NoRequest EXCEPT !.sortBy = s, !.search = t] :
     s \in SortKeys \cup {""}, t \in {<<>>, <<"m">>}}

\* geocentre: absent, partial, zero, in range, out of range; the radius is
\* absent, 1.6 m or 10 km
GeoRequests ==
  {[NoRequest EXCEPT !.latitude = la, !.longitude = lo, !.radius = r,
                     !.sortBy = s] :
     la \in {NULL, 0, Center.lat, 999000000},
     lo \in {NULL, 0, Center.lng},
     r \in {NULL, 160, 1000000},
     s \in {"", "distance"}}
  \cup
  {[NoRequest EXCEPT !.latitude = Center.lat, !.longitude = Center.lng,
                     !.radius = r, !.sortBy = s, !.search = <<"m">>] :
     r \in {NULL, 1000000}, s \in {"", "distance"}}

\* exact and range filters
FilterRequests ==
  {[NoRequest EXCEPT !.minPrice = lo, !.maxPrice = hi, !.propertyType = pt] :
     lo \in {NULL, 150}, hi \in {NULL, 150}, pt \in {"", "land"}}

SearchRequests == SortRequests \cup GeoRequests \cup FilterRequests

NearbyRequests ==
  {[NoRequest EXCEPT !.latitude = la, !.longitude = lo, !.radius = r] :
     la \in {NULL, NaN, 0, Center.lat, 999000000},
     lo \in {NULL, Center.lng},
     r \in {NULL, 160, 1000000}}
  \cup
  {[NoRequest EXCEPT !.latitude = Center.lat, !.longitude = Center.lng,
                     !.propertyType = "land", !.limit = l] : l \in {NULL, 1}}

\* PostFilter values a caller of PostService.getNearbyPosts passes
ServiceFilters ==
  {[status |-> st, propertyType |-> pt, listingType |-> "",
    minPrice |-> NULL, maxPrice |-> NULL, minArea |-> NULL,
    maxArea |-> NULL] :
     st \in {"", "pending", "approved", "rejected"}, pt \in {"", "house"}}

(***************************************************************************)
(* State machine                                                           *)
(***************************************************************************)
NoResponse == httpError("none", NoRequest, 0, NoAttempts)

Init ==
  /\ posts = <<>>
  /\ nextId = 1
  /\ users = Users
  /\ resp = NoResponse

\* what PostService.createPost does to the store: the author must be a
\* user; the listing is stored with status pending
createPostWrite(data) ==
  /\ nextId <= MaxPosts
  /\ data.authorId \in users
  /\ posts' = Append(posts, newPost(nextId, data))
  /\ nextId' = nextId + 1
  /\ UNCHANGED users

\* PostService.createPost
createPost(data) ==
  /\ createPostWrite(data)
  /\ resp' = NoResponse

setStatus(id, status) ==
  [i \in 1..Len(posts) |->
     IF posts[i]._id = id THEN [posts[i] EXCEPT !.status = status] ELSE posts[i]]

\* what postRepository.update(id, { status }) does to the store
statusWrite(id, status) ==
  /\ id \in Ids
  /\ posts' = setStatus(id, status)
  /\ UNCHANGED <<nextId, users>>

\* PostService.approvePost / postHelper.updatePostStatus(id, "approved")
approvePost(id) ==
  /\ statusWrite(id, "approved")
  /\ resp' = NoResponse

\* PostService.rejectPost / postHelper.updatePostStatus(id, "rejected")
rejectPost(id) ==
  /\ statusWrite(id, "rejected")
  /\ resp' = NoResponse

\* an ownership check that lets every user through
mayModify_anyone(id, userId, userRole) == TRUE

\* authorId === userId || userRole === "admin"
mayModify(id, userId, userRole) ==
  postById(id).authorId = userId \/ userRole = "admin"

\* the error updatePost and deletePost throw before they touch the store:
\* the listing is not found, or the caller is neither its author nor an
\* admin; "" when they go on
accessError(id, userId, userRole) ==
  IF id \notin Ids THEN "notFound"
  ELSE IF ~mayModify(id, userId, userRole) THEN "forbidden"
  ELSE ""

\* how a call of PostService.updatePost or deletePost ended: the method,
\* the listing it named and the error it threw ("" for none), in the shape
\* of a response that holds no list of listings
serviceResult(kind, id, error) ==
  [kind |-> kind, req |-> NoRequest, code |-> 0, body |-> {}, data |-> <<>>,
   pagination |-> NoPagination, count |-> 0, attempts |-> NoAttempts,
   queries |-> 0, id |-> id, error |-> error]

\* PostService.updatePost with the request body { status }
updatePost(id, userId, userRole, status) ==
  /\ posts' = IF accessError(id, userId, userRole) = ""
                THEN setStatus(id, status) ELSE posts
  /\ resp' = serviceResult("PostService.updatePost", id,
                           accessError(id, userId, userRole))
  /\ UNCHANGED <<nextId, users>>

\* what PostService.deletePost does to the store
deletePostWrite(id, userId, userRole) ==
  /\ posts' = IF accessError(id, userId, userRole) = ""
                THEN SelectSeq(posts, LAMBDA p : p._id # id) ELSE posts
  /\ UNCHANGED <<nextId, users>>

\* PostService.deletePost
deletePost(id, userId, userRole) ==
  /\ deletePostWrite(id, userId, userRole)
  /\ resp' = serviceResult("PostService.deletePost", id,
                           accessError(id, userId, userRole))

\* a search that counts a view for every stored listing
searchPosts_countingViews(q, outcome) ==
  /\ \E order \in StoreOrders(buildQuery(searchParams(q)),
                              buildSort(searchParams(q).sortBy)) :
       resp' = searchPostsResponse(q, order, outcome)
  /\ posts' = [i \in 1..Len(posts) |-> [posts[i] EXCEPT !.viewCount = 1]]
  /\ UNCHANGED <<nextId, users>>

\* GET /search, the store behaving as outcome says
searchPosts(q, outcome) ==
  /\ \E order \in StoreOrders(buildQuery(searchParams(q)),
                              buildSort(searchParams(q).sortBy)) :
       resp' = searchPostsResponse(q, order, outcome)
  /\ UNCHANGED <<posts, nextId, users>>

\* GET /nearby
getNearbyPosts(q) ==
  /\ \E strictQuery \in BOOLEAN :
       \E order \in
         (IF nearbyInvalid(q) THEN {<<>>}
          ELSE StoreOrders(nearbyQuery(q.latitude, q.longitude, nearbyRadius(q),
                                       nearbyFilter(q), strictQuery),
                           buildSort("distance"))) :
         resp' = getNearbyPostsResponse(q, order, strictQuery)
  /\ UNCHANGED <<posts, nextId, users>>

\* PostService.getNearbyPosts called with a PostFilter of the caller
nearbyByFilter(filter) ==
  /\ \E strictQuery \in BOOLEAN :
      \E order \in StoreOrders(nearbyQuery(Center.lat, Center.lng, 1000000,
                                          filter, strictQuery),
                              buildSort("distance")) :
       LET q == [NoRequest EXCEPT !.latitude = Center.lat,
                                  !.longitude = Center.lng,
                                  !.radius = 1000000,
                                  !.status = filter.status,
                                  !.propertyType = filter.propertyType]
           result == getNearbyPostsService(Center.lat, Center.lng, 1000000,
                                           1, 10, filter, order, strictQuery)
       IN  resp' = httpSuccess("PostService.getNearbyPosts", q, result)
  /\ UNCHANGED <<posts, nextId, users>>

\* the response has been sent; nothing of the request is kept
finish ==
  /\ resp # NoResponse
  /\ resp' = NoResponse
  /\ UNCHANGED <<posts, nextId, users>>

idle == resp = NoResponse

\* one client: an operation starts when the previous response has been sent;
\* the store answers every query it accepts
Next ==
  \/ \E data \in PostData : idle /\ createPost(data)
  \/ \E id \in Ids : idle /\ approvePost(id)
  \/ \E id \in Ids : idle /\ rejectPost(id)
  \/ \E id \in Ids, u \in Users, role \in {"user", "admin"}, st \in Statuses :
       idle /\ updatePost(id, u, role, st)
  \/ \E id \in Ids, u \in Users, role \in {"user", "admin"} :
       idle /\ deletePost(id, u, role)
  \/ \E q \in SearchRequests : idle /\ searchPosts(q, "ok")
  \/ \E q \in NearbyRequests : idle /\ getNearbyPosts(q)
  \/ \E filter \in ServiceFilters : idle /\ nearbyByFilter(filter)
  \/ finish

Spec == Init /\ [][Next]_vars

(***************************************************************************)
(* Repeated requests: the client pages through one search, or repeats it,  *)
(* without waiting in between; listings are created and approved meanwhile *)
(* only between two responses.                                             *)
(***************************************************************************)
PagingRequests ==
  {[NoRequest EXCEPT !.page = p, !.limit = 1, !.sortBy = s, !.search = t] :
     p \in {NULL, 2}, s \in {"", "price_asc", "area_desc"}, t \in {<<>>, <<"m">>}}

NextPaging ==
  \/ \E data \in PostData : idle /\ createPost(data)
  \/ \E id \in Ids : idle /\ approvePost(id)
  \/ \E q \in PagingRequests : searchPosts(q, "ok")
  \/ finish

SpecPaging == Init /\ [][NextPaging]_vars

(***************************************************************************)
(* Properties                                                              *)
(***************************************************************************)
isSearch == resp.kind = "searchPosts" /\ resp.code = 200

isNearby == resp.kind = "getNearbyPosts" /\ resp.code = 200

returnedIds == {resp.data[i]._id : i \in 1..Len(resp.data)}

\* the request carries a geocentre with both components, each a number
geocentreSupplied(q) ==
  q.latitude \notin {NULL, NaN} /\ q.longitude \notin {NULL, NaN}

\* C1: every listing returned by a search (searchPosts, the nearby endpoint,
\* PostService.getNearbyPosts with the caller's filter) has status approved.
C1_OnlyApprovedReturned ==
  \A i \in 1..Len(resp.data) : resp.data[i].status = "approved"

scoresNonIncreasing ==
  \A i \in 1..Len(resp.data), j \in 1..Len(resp.data) :
    i < j => resp.data[i].relevanceScore >= resp.data[j].relevanceScore

\* C3 as stated: for every request with free text, whatever sortBy and
\* geocentre it carries, the relevance scores of the page are non-increasing.
C3_ScoresNonIncreasing ==
  (isSearch /\ resp.req.search # <<>>) => scoresNonIncreasing

\* C3 amended: for every request with free text whose sortBy is not
\* "distance" (relevance mode), the relevance scores of the returned page
\* are non-increasing in array order.
C3_RelevanceModeScoresNonIncreasing ==
  (isSearch /\ resp.req.search # <<>> /\ resp.req.sortBy # "distance")
    => scoresNonIncreasing

\* relevance mode re-orders what the store delivered newest first
C3_Witness ==
  /\ isSearch
  /\ resp.req.search # <<>>
  /\ resp.req.sortBy = ""
  /\ Len(resp.data) >= 2
  /\ resp.data[1].relevanceScore > resp.data[2].relevanceScore
  /\ resp.data[1].createdAt < resp.data[2].createdAt

\* two consecutive successful responses to the same search on the same data
sameDataset ==
  /\ posts' = posts
  /\ resp.kind = "searchPosts" /\ resp.code = 200
  /\ resp'.kind = "searchPosts" /\ resp'.code = 200

pageOf(q) == parseOr(q.page, 1)

approvedMatchingIds(q) ==
  {posts[i]._id : i \in matching(buildQuery(searchParams(q)))}

\* C4: the pages of one request, asked for one after the other on unchanged
\* data, share no listing, and together (here: when there are two pages)
\* they hold every listing matching the predicate.
C4_PagesPartitionMatches ==
  [][(/\ sameDataset
      /\ [resp.req EXCEPT !.page = NULL] = [resp'.req EXCEPT !.page = NULL]
      /\ pageOf(resp.req) # pageOf(resp'.req))
     => /\ returnedIds \cap {resp'.data[i]._id : i \in 1..Len(resp'.data)} = {}
        /\ (resp.pagination.totalPages = 2 =>
              returnedIds \cup {resp'.data[i]._id : i \in 1..Len(resp'.data)}
                = approvedMatchingIds(resp.req))]_vars

\* C5: the same request, run twice on unchanged data, gives the same
\* listings in the same order and the same pagination.
C5_RepeatedRequestSameResponse ==
  [][(sameDataset /\ resp'.req = resp.req)
     => (resp'.data = resp.data /\ resp'.pagination = resp.pagination)]_vars

outOfRange(q) ==
  geocentreSupplied(q) /\ ~validPoint(q.latitude, q.longitude)

\* C6: a search or nearby request whose geocentre is out of range ends with
\* a client error, and no store query is issued.
C6_OutOfRangeGeocentreRejected ==
  (resp.kind \in {"searchPosts", "getNearbyPosts"} /\ outOfRange(resp.req))
    => (resp.code = 400 /\ resp.queries = 0)

\* C7: a search request with exactly one of latitude and longitude ends with
\* a client error, and no store query is issued.
C7_PartialGeocentreRejected ==
  (/\ resp.kind = "searchPosts"
   /\ (resp.req.latitude = NULL) # (resp.req.longitude = NULL))
    => (resp.code = 400 /\ resp.queries = 0)

\* C8: a result of advancedSearch carries a distance iff the request
\* supplied a geocentre (both components, each a number), latitude 0 and
\* longitude 0 included.
C8_DistanceIffGeocentre ==
  isSearch =>
    \A i \in 1..Len(resp.data) :
      (resp.data[i].distance # NULL) <=> geocentreSupplied(resp.req)

\* C9: a result of searchPosts carries a relevanceScore iff the request
\* supplied a non-empty free text, in relevance mode and with sortBy=distance.
C9_ScoreIffFreeText ==
  isSearch =>
    \A i \in 1..Len(resp.data) :
      (resp.data[i].relevanceScore # NULL) <=> (resp.req.search # <<>>)

\* free text together with sortBy=distance and a geocentre
C9_Witness ==
  /\ isSearch
  /\ resp.req.search # <<>>
  /\ resp.req.sortBy = "distance"
  /\ resp.req.latitude = Center.lat
  /\ Len(resp.data) >= 2
  /\ resp.data[1].relevanceScore < resp.data[2].relevanceScore

\* the radius of the request in centimetres
radiusOf(q) == IF q.radius # NULL THEN q.radius ELSE DefaultRadiusCm

\* the distance calculateDistance gives from the centre of the request to
\* the stored point of a returned listing
recomputed(q, item) ==
  calculateDistance(q.latitude, q.longitude, item.location.lat, item.location.lng)

\* C10 as stated: every annotated distance is at most the requested radius.
C10_DistanceWithinRadius ==
  (isSearch \/ isNearby) =>
    \A i \in 1..Len(resp.data) :
      resp.data[i].distance # NULL
        => resp.data[i].distance * 100 <= radiusOf(resp.req)

\* C10 amended: every annotated distance is the rounded haversine distance
\* from the centre to the listing's stored point and is at most the
\* requested radius rounded to the nearest metre (hence at most the radius
\* when that is a whole number of metres).
C10_DistanceWithinRoundedRadius ==
  (isSearch \/ isNearby) =>
    \A i \in 1..Len(resp.data) :
      resp.data[i].distance # NULL
        => /\ resp.data[i].distance = recomputed(resp.req, resp.data[i])
           /\ resp.data[i].distance * 100 <= ((radiusOf(resp.req) + 50) \div 100) * 100

\* default radius: the listing 1590 m away is returned and annotated while
\* an approved listing 7150 m away is left out
C10_Witness ==
  /\ isSearch
  /\ resp.req.radius = NULL
  /\ \E i \in 1..Len(resp.data) : resp.data[i].distance = 1590
  /\ \E i \in 1..Len(posts) :
       /\ posts[i].status = "approved"
       /\ posts[i].location = PointC
       /\ posts[i]._id \notin returnedIds

(***************************************************************************)
(* Filter-only requests: numeric ranges and exact-match filters            *)
(***************************************************************************)
\* price and area bounds: absent, 0, a value some listing has, a value
\* between two listings
RangeRequests ==
  {[NoRequest EXCEPT !.minPrice = lo, !.maxPrice = hi] :
     lo \in {NULL, 0, 100, 150}, hi \in {NULL, 0, 100, 150}}
  \cup
  {[NoRequest EXCEPT !.minArea = lo, !.maxArea = hi] :
     lo \in {NULL, 0, 80}, hi \in {NULL, 0, 50}}

\* every combination of the exact-match filters, and Scenario A
ExactRequests ==
  {[NoRequest EXCEPT !.propertyType = pt, !.listingType = lt, !.condition = c,
                     !.featured = f, !.urgent = u] :
     pt \in {"", "land"}, lt \in {"", "rent"}, c \in {"", "new"},
     f \in {"", "true", "false"}, u \in {"", "true", "false"}}
  \cup
  {[NoRequest EXCEPT !.propertyType = "land", !.minPrice = 100,
                     !.maxPrice = 150]}

NextFilter ==
  \/ \E data \in PostData : idle /\ createPost(data)
  \/ \E id \in Ids : idle /\ approvePost(id)
  \/ \E q \in RangeRequests \cup ExactRequests : idle /\ searchPosts(q, "ok")
  \/ finish

SpecFilter == Init /\ [][NextFilter]_vars

\* min <= value for a supplied min and value <= max for a supplied max
inRange(value, min, max) ==
  /\ (min # NULL => min <= value)
  /\ (max # NULL => value <= max)

\* the approved listings within the price and area bounds the request supplies
approvedInRange(q) ==
  {posts[i]._id :
     i \in {j \in 1..Len(posts) :
              /\ posts[j].status = "approved"
              /\ inRange(posts[j].price, q.minPrice, q.maxPrice)
              /\ inRange(posts[j].area, q.minArea, q.maxArea)}}

\* C11: a request that carries only price or area bounds returns exactly the
\* approved listings whose value is >= every supplied minimum and <= every
\* supplied maximum, both inclusive, each bound on its own, the bound 0
\* included.
C11_RangeBoundsInclusive ==
  (isSearch /\ resp.req \in RangeRequests)
    => returnedIds = approvedInRange(resp.req)

\* the value of a boolean filter of the query string
flagValue(raw) == raw = "true"

\* the approved listings that equal the request on every exact-match field
\* it supplies and lie within the price bounds it supplies
approvedEqualOnSupplied(q) ==
  {posts[i]._id :
     i \in {j \in 1..Len(posts) :
              /\ posts[j].status = "approved"
              /\ (q.propertyType # "" => posts[j].propertyType = q.propertyType)
              /\ (q.listingType # "" => posts[j].listingType = q.listingType)
              /\ (q.condition # "" => posts[j].condition = q.condition)
              /\ (q.featured # "" => posts[j].featured = flagValue(q.featured))
              /\ (q.urgent # "" => posts[j].urgent = flagValue(q.urgent))
              /\ inRange(posts[j].price, q.minPrice, q.maxPrice)}}

\* C12: a filter-only request returns exactly the approved listings that
\* equal the supplied value on every exact-match field the request supplies
\* (propertyType, listingType, condition, featured, urgent; false included);
\* a field the request leaves out excludes no listing.
C12_ExactFiltersConstrainWhenPresent ==
  (isSearch /\ resp.req \in ExactRequests)
    => returnedIds = approvedEqualOnSupplied(resp.req)

\* featured=false alone: the approved listing that is not featured is
\* returned, the approved featured one is not
C12_Witness ==
  /\ isSearch
  /\ resp.req = [NoRequest EXCEPT !.featured = "false"]
  /\ Len(resp.data) = 1
  /\ ~postById(resp.data[1]._id).featured
  /\ \E i \in 1..Len(posts) : posts[i].status = "approved" /\ posts[i].featured

(***************************************************************************)
(* The relevance scorer on its own: two stored listings, the first with    *)
(* the query in its title (and longer than the query), the second with the *)
(* query in its description only, with every combination of flags and view *)
(* counts; the scorer is applied to both.                                  *)
(***************************************************************************)
ViewCounts == {0, 150, 300, 1000}

scoredListing(id, title, description, featured, urgent, viewCount) ==
  [newPost(id, [title |-> title, description |-> description, tags |-> <<>>,
                keywords |-> <<>>, province |-> <<"v">>, district |-> <<"c">>,
                street |-> <<"s">>, price |-> 100, area |-> 50,
                featured |-> featured, urgent |-> urgent, location |-> PointD,
                authorId |-> "u1", propertyType |-> "land",
                bedrooms |-> NULL, listingType |-> "", condition |-> ""])
     EXCEPT !.viewCount = viewCount, !.status = "approved"]

TitleMatches ==
  {scoredListing(1, t, d, f, u, v) :
     t \in {<<"a", "M">>, <<"m", "a", "b">>}, d \in {<<"b">>, <<"m">>},
     f \in BOOLEAN, u \in BOOLEAN, v \in ViewCounts}

DescriptionMatches ==
  {scoredListing(2, <<"a">>, d, f, u, v) :
     d \in {<<"b", "m">>, <<"M">>}, f \in BOOLEAN, u \in BOOLEAN,
     v \in ViewCounts}

InitScorer ==
  /\ \E a \in TitleMatches, b \in DescriptionMatches : posts = <<a, b>>
  /\ nextId = 3
  /\ users = Users
  /\ resp = NoResponse

\* calculateRelevanceScore applied to every stored listing
scoreListings(searchText) ==
  /\ resp' = [kind |-> "calculateRelevanceScore", searchText |-> searchText,
              scores |-> [i \in 1..Len(posts) |->
                            calculateRelevanceScore(posts[i], searchText)]]
  /\ UNCHANGED <<posts, nextId, users>>

NextScorer == \E searchText \in {<<"m">>, <<"M">>} : scoreListings(searchText)

SpecScorer == InitScorer /\ [][NextScorer]_vars

isScore == resp.kind = "calculateRelevanceScore"

\* C13 as stated: the listing with the query in its title scores at least
\* 10 points more than the listing with the query only in its description,
\* whatever their flags and view counts.
C13_TitleMatchTenPointsHigher ==
  isScore => resp.scores[1] >= resp.scores[2] + 1000

\* C13 amended: the listing with the query in its title scores at least 10
\* points and at least 1 point more than the listing with the query only in
\* its description, whatever their flags and view counts, and at least 7
\* points more when both have the same flags and the same view count.
C13_TitleMatchScoresHigher ==
  isScore =>
    /\ resp.scores[1] >= 1000
    /\ resp.scores[1] >= resp.scores[2] + 100
    /\ (/\ posts[1].featured = posts[2].featured
        /\ posts[1].urgent = posts[2].urgent
        /\ posts[1].viewCount = posts[2].viewCount)
         => resp.scores[1] >= resp.scores[2] + 700

\* the narrowest margin: a plain title match against a featured, urgent,
\* much viewed description match
C13_Witness ==
  /\ isScore
  /\ resp.scores[1] = 1000
  /\ resp.scores[2] = 900

(***************************************************************************)
(* Owner resolution: users are deleted while their listings stay, and the  *)
(* collection may hold a listing written before authorId was validated     *)
(* (empty, malformed, or the id of no user).                               *)
(***************************************************************************)
LegacyData ==
  {[d EXCEPT !.authorId = a] :
     d \in {x \in PostData : x.propertyType = "land"}, a \in {"", "bad", "u9"}}

InitOwner ==
  /\ posts \in {<<>>} \cup {<<newPost(1, d)>> : d \in LegacyData}
  /\ nextId = Len(posts) + 1
  /\ users = Users
  /\ resp = NoResponse

\* DELETE /users/:id; the listings of the user are left in place
deleteUser(id) ==
  /\ id \in users
  /\ users' = users \ {id}
  /\ resp' = NoResponse
  /\ UNCHANGED <<posts, nextId>>

OwnerRequests ==
  {[NoRequest EXCEPT !.limit = l, !.search = t] :
     l \in {NULL, 1}, t \in {<<>>, <<"m">>, <<"b">>}}

NextOwner ==
  \/ \E data \in PostData : idle /\ createPost(data)
  \/ \E id \in Ids : idle /\ approvePost(id)
  \/ \E id \in Users : idle /\ deleteUser(id)
  \/ \E q \in OwnerRequests : idle /\ searchPosts(q, "ok")
  \/ finish

SpecOwner == InitOwner /\ [][NextOwner]_vars

\* the author reference stored with a returned listing
storedAuthor(item) == postById(item._id).authorId

\* C14: a search over listings whose author reference is missing, malformed
\* or the id of no user succeeds; every returned listing carries the user
\* record with the identifier of its stored reference, or null; it carries
\* null when that reference is missing, malformed or the id of no user; and
\* the page is as long as the page size and the number of matches allow.
C14_AuthorIsUserRecordOrNull ==
  (resp.kind = "searchPosts" /\ resp.req \in OwnerRequests) =>
    /\ resp.code = 200
    /\ \A i \in 1..Len(resp.data) :
         /\ resp.data[i].authorId \in {userRecord(storedAuthor(resp.data[i])), NoUser}
         /\ storedAuthor(resp.data[i]) \notin users
              => resp.data[i].authorId = NoUser
    /\ Len(resp.data) = Min(resp.pagination.limit, resp.pagination.total)

\* one page with a listing whose author was found and a listing whose
\* author reference is malformed
C14_Witness ==
  /\ resp.kind = "searchPosts" /\ resp.code = 200
  /\ \E i, j \in 1..Len(resp.data) :
       /\ resp.data[i].authorId # NoUser
       /\ resp.data[i].authorId = userRecord(storedAuthor(resp.data[i]))
       /\ resp.data[j].authorId = NoUser
       /\ storedAuthor(resp.data[j]) = "bad"

(***************************************************************************)
(* Searches against a store that may fail any of the three queries         *)
(***************************************************************************)
FailureRequests ==
  {[NoRequest EXCEPT !.limit = l, !.search = t, !.sortBy = s] :
     l \in {NULL, 1}, t \in {<<>>, <<"m">>}, s \in {"", "price_asc"}}
  \cup
  {[NoRequest EXCEPT !.latitude = Center.lat, !.longitude = Center.lng,
                     !.sortBy = "distance"]}

NextFailure ==
  \/ \E data \in PostData : idle /\ createPost(data)
  \/ \E id \in Ids : idle /\ approvePost(id)
  \/ \E q \in FailureRequests, outcome \in StoreOutcomes :
       idle /\ searchPosts(q, outcome)
  \/ finish

SpecFailure == Init /\ [][NextFailure]_vars

\* C15: a search during which the find, the count or the user lookup fails
\* ends with an internal error that carries no listing and no pagination;
\* the find and the count, started together, were each issued once, the user
\* lookup once when it is the query that failed and not at all otherwise.
C15_StoreFailureIsInternalError ==
  [][\A q \in FailureRequests,
        outcome \in {"findFails", "countFails", "usersFails"} :
       searchPosts(q, outcome) =>
         /\ resp'.code = 500
         /\ resp'.data = <<>>
         /\ resp'.pagination = NoPagination
         /\ resp'.attempts =
              [find |-> 1, count |-> 1,
               users |-> IF outcome = "usersFails" THEN 1 ELSE 0]]_vars

\* the user lookup failed after the find and the count had answered, while
\* an approved listing was there to be returned
C15_Witness ==
  /\ resp.kind = "searchPosts"
  /\ resp.code = 500
  /\ resp.attempts = [find |-> 1, count |-> 1, users |-> 1]
  /\ \E i \in 1..Len(posts) : posts[i].status = "approved"

(***************************************************************************)
(* Page numbers and page sizes a caller may send                           *)
(***************************************************************************)
\* page: absent, unparsable, 0, negative, 2; limit: absent, unparsable, 0,
\* 1, one thousand
BoundsRequests ==
  {[NoRequest EXCEPT !.page = p, !.limit = l, !.search = t] :
     p \in {NULL, NaN, 0, 0 - 1, 2}, l \in {NULL, NaN, 0, 1, 1000},
     t \in {<<>>, <<"m">>}}

NextBounds ==
  \/ \E data \in PostData : idle /\ createPost(data)
  \/ \E id \in Ids : idle /\ approvePost(id)
  \/ \E q \in BoundsRequests : idle /\ searchPosts(q, "ok")
  \/ finish

SpecBounds == Init /\ [][NextBounds]_vars

\* C16: every search request for which a store query was issued was issued
\* with page >= 1, hence with an offset (page - 1) * limit that is not
\* negative.
C16_PageAtLeastOne ==
  (resp.kind = "searchPosts" /\ resp.queries > 0) =>
    /\ searchParams(resp.req).page >= 1
    /\ (searchParams(resp.req).page - 1) * searchParams(resp.req).limit >= 0

\* C17: the document sent for a successful search has the result array, the
\* pagination block and the echo of the applied filters and search centre
\* that advancedSearch computed (searchInfo).
C17_ResponseCarriesSearchInfo ==
  isSearch => {"data", "pagination", "searchInfo"} \subseteq resp.body

(***************************************************************************)
(* Listings of a province: getPostsByProvince and PostService.filterPosts. *)
(* The filter the handler builds carries no geocentre, so filterPosts does *)
(* not delegate to getNearbyPosts.                                         *)
(***************************************************************************)
\* the filter getPostsByProvince builds from the route and the query string
provinceFilter(q) ==
  [province |-> q.province, propertyType |-> q.propertyType,
   listingType |-> q.listingType, minPrice |-> q.minPrice,
   maxPrice |-> q.maxPrice,
   sortBy |-> IF q.sortBy = "" THEN "newest" ELSE q.sortBy]

\* the query of filterPosts, status approved put in front by
\* findWithAdvancedFilter as well
filterQuery(filter) ==
  [status |-> "approved", text |-> <<>>, near |-> NoNear,
   propertyType |-> filter.propertyType, listingType |-> filter.listingType,
   condition |-> "", featured |-> "", urgent |-> "",
   province |-> filter.province,
   price |-> [gte |-> IF truthy(filter.minPrice) THEN filter.minPrice ELSE NULL,
              lte |-> IF truthy(filter.maxPrice) THEN filter.maxPrice ELSE NULL],
   area |-> [gte |-> NULL, lte |-> NULL],
   bedrooms |-> NULL, unknownField |-> FALSE]

\* the sort of filterPosts: its switch has no case for distance
filterSort(sortBy) ==
  IF sortBy = "distance" THEN buildSort("newest") ELSE buildSort(sortBy)

\* PostService.filterPosts / PostQueryHelper.findWithAdvancedFilter
filterPosts(filter, page, limit, order) ==
  LET found == find(order, (page - 1) * limit, limit)
      total == countDocuments(filterQuery(filter))
  IN  [ok |-> TRUE,
       posts |-> [i \in 1..Len(found) |->
                    [post |-> populate(found[i]), relevanceScore |-> NULL,
                     distance |-> NULL]],
       pagination |-> [current |-> page, total |-> CeilDiv(total, limit),
                       count |-> Len(found), totalCount |-> total,
                       limit |-> limit],
       hasGeospatialFilter |-> FALSE,
       attempts |-> [find |-> 1, count |-> 1, users |-> 0]]

\* GET /province/:province
getPostsByProvince(q) ==
  /\ \E order \in StoreOrders(filterQuery(provinceFilter(q)),
                              filterSort(provinceFilter(q).sortBy)) :
       resp' = httpSuccess("getPostsByProvince", q,
                           filterPosts(provinceFilter(q), parseOr(q.page, 1),
                                       parseOr(q.limit, 10), order))
  /\ UNCHANGED <<posts, nextId, users>>

ProvinceRequests ==
  {[NoRequest EXCEPT !.province = p, !.propertyType = pt, !.sortBy = s] :
     p \in {<<"V">>, <<"x">>}, pt \in {"", "land"}, s \in {"", "price_asc"}}

(***************************************************************************)
(* Searches that do not wait for one another: a search may start before    *)
(* the response of the previous one has been sent; listings and users are  *)
(* created, approved and deleted in between.                               *)
(***************************************************************************)
ReadRequests ==
  {[NoRequest EXCEPT !.search = t, !.limit = l] :
     t \in {<<>>, <<"m">>}, l \in {NULL, 1}}

ReadNearbyRequests ==
  {[NoRequest EXCEPT !.latitude = Center.lat, !.longitude = Center.lng,
                     !.radius = r] : r \in {NULL, 1000000}}

NextRead ==
  \/ \E data \in PostData : idle /\ createPost(data)
  \/ \E id \in Ids : idle /\ approvePost(id)
  \/ \E id \in Users : idle /\ deleteUser(id)
  \/ \E q \in ReadRequests : searchPosts(q, "ok")
  \/ \E q \in ReadNearbyRequests : getNearbyPosts(q)
  \/ \E q \in ProvinceRequests : getPostsByProvince(q)
  \/ finish

SpecRead == Init /\ [][NextRead]_vars

SearchKinds == {"searchPosts", "getNearbyPosts", "getPostsByProvince"}

ModeRequests ==
  {[NoRequest EXCEPT !.sortBy = s, !.search = t, !.latitude = c.lat,
                     !.longitude = c.lng, !.page = p, !.limit = l] :
     s \in {"", "distance", "price_asc", "oldest"},
     t \in {<<>>, <<"m">>},
     c \in {[lat |-> NULL, lng |-> NULL], Center},
     p \in {NULL, 2}, l \in {NULL, 1}}

NextMode ==
  \/ \E data \in PostData : idle /\ createPost(data)
  \/ \E id \in Ids : idle /\ approvePost(id)
  \/ \E q \in ModeRequests : idle /\ searchPosts(q, "ok")
  \/ finish

SpecMode == Init /\ [][NextMode]_vars

\* the page is in non-decreasing order of dir * field
pageSortedBy(field, dir) ==
  \A i \in 1..Len(resp.data), j \in 1..Len(resp.data) :
    i < j => dir * resp.data[i][field] <= dir * resp.data[j][field]

\* the explicit sort a request asks for, newest first unless it names
\* another field
explicitSortHolds(sortBy) ==
  CASE sortBy = "oldest" -> pageSortedBy("createdAt", 1)
    [] sortBy = "price_asc" -> pageSortedBy("price", 1)
    [] sortBy = "price_desc" -> pageSortedBy("price", 0 - 1)
    [] sortBy = "area_asc" -> pageSortedBy("area", 1)
    [] sortBy = "area_desc" -> pageSortedBy("area", 0 - 1)
    [] OTHER -> pageSortedBy("createdAt", 0 - 1)

\* C19: the page of a search is ordered by exactly one of three modes:
\* nearest first when sortBy is distance and a geocentre is given; by
\* non-increasing relevance score when there is free text and sortBy is not
\* distance; in every other case by the explicit sort field, newest first
\* by default - so also for sortBy=distance without geocentre.
C19_OneSortModePerRequest ==
  (isSearch /\ resp.req \in ModeRequests) =>
    IF resp.req.sortBy = "distance" /\ geocentreSupplied(resp.req)
      THEN pageSortedBy("distance", 1)
    ELSE IF resp.req.search # <<>> /\ resp.req.sortBy # "distance"
      THEN pageSortedBy("relevanceScore", 0 - 1)
    ELSE explicitSortHolds(resp.req.sortBy)

\* identifiers of the documents in the order the store delivers them
idsOf(order) == [i \in 1..Len(order) |-> posts[order[i]]._id]

\* C20: when the request has no free text, or has sortBy=distance, the
\* returned listings are the slice [(page-1)*limit, (page-1)*limit + limit)
\* of the matching documents in an order the store delivers for the query
\* and its sort, in that order.
C20_DirectFetchKeepsStoreOrder ==
  (isSearch /\ resp.req \in ModeRequests
     /\ (resp.req.search = <<>> \/ resp.req.sortBy = "distance")) =>
    LET params == searchParams(resp.req)
        skip == (params.page - 1) * params.limit
    IN  \E order \in StoreOrders(buildQuery(params), buildSort(params.sortBy)) :
          [i \in 1..Len(resp.data) |-> resp.data[i]._id]
            = Slice(idsOf(order), skip, skip + params.limit)

\* free text with sortBy=distance, page 1 of size 1: the nearer listing is
\* returned although the farther one has the higher score
C20_Witness ==
  /\ isSearch
  /\ resp.req.search # <<>>
  /\ resp.req.sortBy = "distance"
  /\ resp.req.latitude = Center.lat
  /\ resp.req.limit = 1 /\ resp.req.page = NULL
  /\ resp.pagination.total = 2
  /\ Len(resp.data) = 1
  /\ \E i \in 1..Len(posts) :
       /\ posts[i].status = "approved"
       /\ posts[i]._id \notin returnedIds
       /\ calculateRelevanceScore(posts[i], resp.req.search)
            > resp.data[1].relevanceScore

(***************************************************************************)
(* The candidate window of relevance mode: a store that holds more         *)
(* approved listings matching the text than one window takes.              *)
(***************************************************************************)
WindowPosts == 6

\* what the listings of the full store were created from: both match the
\* text "m", with different scores
WindowData ==
  {d \in PostData : d.title \in {<<"a", "M">>, <<"m">>}}

\* WindowPosts listings have been created and approved, at most two of them
\* with the title that equals the text
InitWindow ==
  /\ posts \in {[i \in 1..WindowPosts |->
                   [newPost(i, d[i]) EXCEPT !.status = "approved"]] :
                  d \in {f \in [1..WindowPosts -> WindowData] :
                           Cardinality({i \in 1..WindowPosts :
                                          f[i].title = <<"m">>}) <= 2}}
  /\ nextId = WindowPosts + 1
  /\ users = Users
  /\ resp = NoResponse

\* free text, page size 1, pages inside and beyond the window
WindowRequests ==
  {[NoRequest EXCEPT !.search = <<"m">>, !.limit = 1, !.page = p,
                     !.sortBy = s] :
     p \in {NULL, 2, 5, 6}, s \in {"", "oldest"}}

NextWindow ==
  \/ \E q \in WindowRequests : idle /\ searchPosts(q, "ok")
  \/ finish

SpecWindow == InitWindow /\ [][NextWindow]_vars

\* the number of candidates of window W (indices of stored listings in fetch
\* order) that the descending stable sort puts before the i-th
windowRank(W, searchText, i) ==
  LET s(j) == calculateRelevanceScore(posts[W[j]], searchText)
  IN  Cardinality({j \in 1..Len(W) :
                     s(j) > s(i) \/ (s(j) = s(i) /\ j < i)})

\* C21: in relevance mode the candidates are the first 5 x limit documents
\* of the store's order for the query, counted from offset 0; every one is
\* scored, they are sorted by descending score, and the response holds the
\* elements at positions [(page-1)*limit, (page-1)*limit + limit) of the
\* sorted window, however many documents match.
C21_RelevanceWindowSlice ==
  (isSearch /\ resp.code = 200 /\ resp.req \in WindowRequests) =>
    LET params == searchParams(resp.req)
        skip == (params.page - 1) * params.limit
    IN  \E order \in StoreOrders(buildQuery(params), buildSort(params.sortBy)) :
          LET W == SubSeq(order, 1, Min(Len(order), 5 * params.limit))
              n == IF Len(W) > skip
                     THEN Min(Len(W), skip + params.limit) - skip ELSE 0
              at(k) == CHOOSE i \in 1..Len(W) :
                         windowRank(W, params.searchText, i) = skip + k - 1
          IN  /\ resp.count = Len(W)
              /\ Len(resp.data) = n
              /\ \A k \in 1..n :
                   /\ resp.data[k]._id = posts[W[at(k)]]._id
                   /\ resp.data[k].relevanceScore =
                        calculateRelevanceScore(posts[W[at(k)]],
                                                params.searchText)

\* six listings match, five are fetched, and page 2 holds a listing that is
\* not the second of the fetch order
C21_Witness ==
  /\ isSearch
  /\ resp.req \in WindowRequests
  /\ resp.req.page = 2 /\ resp.req.sortBy = ""
  /\ resp.pagination.total >= 6
  /\ resp.count = 5
  /\ Len(resp.data) = 1
  /\ resp.data[1]._id # Len(posts) - 1

\* the request is served in relevance mode
inRelevanceMode == resp.req.search # <<>> /\ resp.req.sortBy # "distance"

\* C22 as stated: in relevance mode two returned listings of equal score
\* appear most recent first, whatever sortBy the request passes.
C22_TiesMostRecentFirst ==
  (isSearch /\ resp.req \in ModeRequests /\ inRelevanceMode) =>
    \A i \in 1..Len(resp.data), j \in 1..Len(resp.data) :
      (i < j /\ resp.data[i].relevanceScore = resp.data[j].relevanceScore)
        => resp.data[i].createdAt > resp.data[j].createdAt

\* the place of the listing with identifier id in the store's order
placeIn(order, id) == CHOOSE k \in 1..Len(order) : posts[order[k]]._id = id

\* C22: in relevance mode two returned listings of equal score appear in the
\* relative order in which the store fetch returned them, and that order is
\* the one of the request's sortBy: most recent first by default, ascending
\* price for price_asc, oldest first for oldest.
C22_TiesKeepFetchOrder ==
  (isSearch /\ resp.req \in ModeRequests /\ inRelevanceMode) =>
    LET params == searchParams(resp.req)
        tied(i, j) ==
          i < j /\ resp.data[i].relevanceScore = resp.data[j].relevanceScore
        field == IF params.sortBy = "price_asc" THEN "price" ELSE "createdAt"
        dir == IF params.sortBy \in {"price_asc", "oldest"} THEN 1 ELSE 0 - 1
    IN  /\ \E order \in StoreOrders(buildQuery(params), buildSort(params.sortBy)) :
             \A i \in 1..Len(resp.data), j \in 1..Len(resp.data) :
               tied(i, j) => placeIn(order, resp.data[i]._id)
                               < placeIn(order, resp.data[j]._id)
        /\ \A i \in 1..Len(resp.data), j \in 1..Len(resp.data) :
             tied(i, j) => dir * resp.data[i][field] <= dir * resp.data[j][field]

\* free text with sortBy=oldest: two listings of equal score, the older one
\* first
C22_Witness ==
  /\ isSearch
  /\ resp.req \in ModeRequests
  /\ resp.req.search # <<>>
  /\ resp.req.sortBy = "oldest"
  /\ Len(resp.data) = 2
  /\ resp.data[1].relevanceScore = resp.data[2].relevanceScore
  /\ resp.data[1].createdAt < resp.data[2].createdAt

(***************************************************************************)
(* The weight table: calculateRelevanceScore on listings in which every    *)
(* signal is present or absent, for an empty query and for a query in      *)
(* either case.  Scores are in hundredths of a point.                      *)
(***************************************************************************)
WeightedListings ==
  {[newPost(1, [title |-> t, description |-> d, tags |-> tg, keywords |-> kw,
                province |-> pv, district |-> di, street |-> sr,
                price |-> 100, area |-> 50, featured |-> f, urgent |-> u,
                location |-> PointD, authorId |-> "u1",
                propertyType |-> "land", bedrooms |-> NULL,
                listingType |-> "", condition |-> ""])
      EXCEPT !.viewCount = v, !.status = "approved"] :
     t \in {<<"a">>, <<"a", "M">>, <<"m">>},
     d \in {<<"b">>, <<"b", "m">>},
     tg \in {<<>>, << <<"m">> >>, << <<"M", "a">>, <<"b">>, <<"a", "m">> >>},
     kw \in {<<>>, << <<"m">>, <<"m">> >>},
     pv \in {<<"v">>, <<"m", "v">>},
     di \in {<<"c">>, <<"M">>},
     sr \in {<<"s">>, <<"s", "m">>},
     f \in BOOLEAN, u \in BOOLEAN, v \in {0, 50, 300, 1000}}

InitWeights ==
  /\ \E a \in WeightedListings : posts = <<a>>
  /\ nextId = 2
  /\ users = Users
  /\ resp = NoResponse

NextWeights ==
  \E searchText \in {<<>>, <<"m">>, <<"M">>} : scoreListings(searchText)

SpecWeights == InitWeights /\ [][NextWeights]_vars

\* text s contains text q somewhere, letter case ignored
containsIgnoringCase(s, q) ==
  \E off \in 0..Len(s) :
    /\ off + Len(q) <= Len(s)
    /\ \A k \in 1..Len(q) : toLowerCase(<<s[off + k]>>) = toLowerCase(<<q[k]>>)

\* the weight table applied to one listing, in hundredths of a point
weightTable(post, q) ==
  LET hit(s) == containsIgnoringCase(s, q)
      hits(list) == Cardinality({i \in 1..Len(list) : hit(list[i])})
  IN  (IF hit(post.title) THEN 1000 ELSE 0)
    + (IF hit(post.title) /\ Len(post.title) = Len(q) THEN 500 ELSE 0)
    + 800 * hits(post.tags)
    + 700 * hits(post.keywords)
    + (IF hit(post.province) THEN 600 ELSE 0)
    + (IF hit(post.district) THEN 500 ELSE 0)
    + (IF hit(post.street) THEN 400 ELSE 0)
    + (IF hit(post.description) THEN 300 ELSE 0)
    + (IF post.featured THEN 200 ELSE 0)
    + (IF post.urgent THEN 100 ELSE 0)
    + Min(post.viewCount, 300)

\* C23: calculateRelevanceScore(listing, query) is the sum of the weight
\* table, every text check being a case-insensitive substring test: +10
\* title contains, +5 more title equals, +8 per tag, +7 per keyword, +6
\* province, +5 district, +4 street, +3 description, +2 featured, +1 urgent,
\* plus min(viewCount/100, 3); it is never negative and is 0 for an empty
\* query.
C23_ScoreIsWeightTableSum ==
  (isScore /\ Len(posts) = 1 /\ posts[1] \in WeightedListings) =>
    /\ resp.scores[1] >= 0
    /\ resp.searchText = <<>> => resp.scores[1] = 0
    /\ resp.searchText # <<>> =>
         resp.scores[1] = weightTable(posts[1], resp.searchText)

\* every signal fires for the query in upper case: 15 + 16 + 14 + 6 + 5 + 4
\* + 3 + 2 + 1 + 3 points
C23_Witness ==
  /\ isScore
  /\ posts[1] \in WeightedListings
  /\ resp.searchText = <<"M">>
  /\ Len(posts[1].tags) = 3
  /\ posts[1].viewCount = 1000
  /\ resp.scores[1] = 6900

(***************************************************************************)
(* Numeric filters that do not parse: parseFloat and parseInt of text that *)
(* is no number give NaN, which the request then carries.                  *)
(***************************************************************************)
UnparsedRequests ==
  {[NoRequest EXCEPT !.minPrice = lo, !.maxPrice = hi, !.minArea = al,
                     !.maxArea = ah, !.bedrooms = b] :
     lo \in {NULL, NaN, 150}, hi \in {NULL, NaN, 150},
     al \in {NULL, NaN}, ah \in {NULL, NaN, 60}, b \in {NULL, NaN, 2}}

NextUnparsed ==
  \/ \E data \in PostData : idle /\ createPost(data)
  \/ \E id \in Ids : idle /\ approvePost(id)
  \/ \E q \in UnparsedRequests : idle /\ searchPosts(q, "ok")
  \/ finish

SpecUnparsed == Init /\ [][NextUnparsed]_vars

\* the value was supplied and parsed to a number
parsed(x) == x \notin {NULL, NaN}

\* the approved listings that satisfy the filters of request q that parsed
approvedWithinParsed(q) ==
  {posts[i]._id :
     i \in {j \in 1..Len(posts) :
              /\ posts[j].status = "approved"
              /\ (parsed(q.minPrice) => posts[j].price >= q.minPrice)
              /\ (parsed(q.maxPrice) => posts[j].price <= q.maxPrice)
              /\ (parsed(q.minArea) => posts[j].area >= q.minArea)
              /\ (parsed(q.maxArea) => posts[j].area <= q.maxArea)
              /\ (parsed(q.bedrooms) => posts[j].bedrooms = q.bedrooms)}}

\* C24: a numeric filter that fails to parse (minPrice, maxPrice, minArea,
\* maxArea, bedrooms given as text that is no number) never makes the
\* search fail: the request succeeds and returns what the request without
\* that filter returns, the filters that parsed - the other bound of the
\* same range among them - still being applied.
C24_UnparsedFilterIsIgnored ==
  (resp.kind = "searchPosts" /\ resp.req \in UnparsedRequests) =>
    /\ resp.code = 200
    /\ returnedIds = approvedWithinParsed(resp.req)
    /\ resp.pagination.total = Cardinality(approvedWithinParsed(resp.req))

\* minPrice does not parse and maxPrice is 150: the listing priced 100 is
\* returned, the approved one priced 200 is not
C24_Witness ==
  /\ resp.kind = "searchPosts"
  /\ resp.req.minPrice = NaN /\ resp.req.maxPrice = 150
  /\ resp.req.bedrooms = NULL /\ resp.req.maxArea = NULL
  /\ resp.code = 200
  /\ Len(resp.data) = 1
  /\ resp.data[1].price = 100
  /\ \E i \in 1..Len(posts) :
       posts[i].status = "approved" /\ posts[i].price = 200

(***************************************************************************)
(* Nearby search with the filters of its query string                      *)
(***************************************************************************)
NearbyFilterRequests ==
  {[NoRequest EXCEPT !.latitude = Center.lat, !.longitude = Center.lng,
                     !.radius = 1000000, !.propertyType = pt,
                     !.listingType = lt, !.minPrice = lo, !.maxPrice = hi,
                     !.minArea = al] :
     pt \in {"", "land"}, lt \in {"", "rent"}, lo \in {NULL, 150},
     hi \in {NULL, 150}, al \in {NULL, 60}}

NextNearby ==
  \/ \E data \in PostData : idle /\ createPost(data)
  \/ \E id \in Ids : idle /\ approvePost(id)
  \/ \E q \in NearbyFilterRequests : idle /\ getNearbyPosts(q)
  \/ finish

SpecNearby == Init /\ [][NextNearby]_vars

\* the approved listings within the radius of the centre of request q that
\* satisfy every filter q supplies, ranges inclusive
approvedNearbyWithin(q) ==
  {posts[i]._id :
     i \in {j \in 1..Len(posts) :
              /\ posts[j].status = "approved"
              /\ haversineCm(q.latitude, q.longitude, posts[j].location.lat,
                             posts[j].location.lng) <= q.radius
              /\ (q.propertyType # "" => posts[j].propertyType = q.propertyType)
              /\ (q.listingType # "" => posts[j].listingType = q.listingType)
              /\ (q.minPrice # NULL => posts[j].price >= q.minPrice)
              /\ (q.maxPrice # NULL => posts[j].price <= q.maxPrice)
              /\ (q.minArea # NULL => posts[j].area >= q.minArea)
              /\ (q.maxArea # NULL => posts[j].area <= q.maxArea)}}

\* C25: the nearby search returns a listing iff it is approved, lies within
\* the radius of the centre and satisfies every supplied filter
\* (propertyType, listingType, minPrice <= price <= maxPrice, minArea <=
\* area <= maxArea), and the reported total counts the same set.
C25_NearbyFiltersNarrow ==
  (isNearby /\ resp.req \in NearbyFilterRequests) =>
    /\ returnedIds = approvedNearbyWithin(resp.req)
    /\ resp.pagination.total = Cardinality(approvedNearbyWithin(resp.req))

(***************************************************************************)
(* Moderation: listings are created, updated and deleted by users and      *)
(* admins (who may name a listing that does not exist), approved and       *)
(* rejected.                                                               *)
(***************************************************************************)
\* the identifiers a caller may name: those of listings that exist, existed
\* or were never created
NamedIds == 1..MaxPosts

NextModeration ==
  \/ \E data \in PostData : idle /\ createPost(data)
  \/ \E id \in Ids : idle /\ approvePost(id)
  \/ \E id \in Ids : idle /\ rejectPost(id)
  \/ \E id \in NamedIds, u \in Users, role \in {"user", "admin"},
        st \in Statuses :
       idle /\ updatePost(id, u, role, st)
  \/ \E id \in NamedIds, u \in Users, role \in {"user", "admin"} :
       idle /\ deletePost(id, u, role)
  \/ finish

SpecModeration == Init /\ [][NextModeration]_vars

\* the status listing id has after the step, "" when it is gone
statusAfter(id) ==
  IF \E i \in 1..Len(posts') : posts'[i]._id = id
    THEN posts'[CHOOSE i \in 1..Len(posts') : posts'[i]._id = id].status
    ELSE ""

\* C26: a listing becomes approved only by an approve operation: every
\* created listing is stored with status pending, and no updatePost issued
\* by the listing's owner (role user) changes the listing's status.
C26_OnlyApproveApproves ==
  [][/\ \A i \in 1..Len(posts') :
          posts'[i]._id \notin Ids => posts'[i].status = "pending"
     /\ \A id \in Ids, st \in Statuses :
          updatePost(id, postById(id).authorId, "user", st)
            => statusAfter(id) = postById(id).status]_vars

\* the step is a call of updatePost or deletePost for listing id by user
\* userId in role userRole
called(id, userId, userRole) ==
  \/ \E st \in Statuses : updatePost(id, userId, userRole, st)
  \/ deletePost(id, userId, userRole)

\* C30: updatePost and deletePost called by a user who is neither the
\* listing's author nor an admin end with an error and leave the listing as
\* it was, neither modified nor deleted; called for a listing that does not
\* exist they end with a not-found error and change no listing.
C30_IntruderChangesNothing ==
  [][\A id \in NamedIds, u \in Users :
       /\ (id \notin Ids
              /\ (called(id, u, "user") \/ called(id, u, "admin"))) =>
            (resp'.error = "notFound" /\ posts' = posts)
       /\ (id \in Ids /\ postById(id).authorId # u /\ called(id, u, "user")) =>
            (resp'.error = "forbidden" /\ posts' = posts)]_vars

\* a user who is not the author asked to delete an approved listing: the
\* call ended with the permission error and the listing is still there
C30_Witness ==
  /\ resp.kind = "PostService.deletePost"
  /\ resp.error = "forbidden"
  /\ resp.id \in Ids
  /\ postById(resp.id).status = "approved"

(***************************************************************************)
(* One search among writers.  advancedSearch starts its find and its count *)
(* together (Promise.all) and the store runs them one after the other in   *)
(* either order; other clients' approve, reject, create and delete         *)
(* operations may be executed by the store in between.  While the request  *)
(* is in flight resp holds what its first query delivered.                 *)
(***************************************************************************)
ConcurrentRequests ==
  {[NoRequest EXCEPT !.search = t, !.page = p, !.limit = l] :
     t \in {<<>>, <<"m">>}, p \in {NULL, 2}, l \in {NULL, 1}}

inFlight == resp.kind = "searchPosts.inFlight"

\* the store executes the first of the two queries of the request
beginSearch(q) ==
  LET params == searchParams(q)
      query == buildQuery(params)
  IN  /\ idle
      /\ \E first \in {"find", "count"},
            order \in StoreOrders(query, buildSort(params.sortBy)) :
           resp' = [kind |-> "searchPosts.inFlight", req |-> q, first |-> first,
                    fetched |-> IF first = "find"
                                  THEN findCandidates(params, order) ELSE <<>>,
                    total |-> IF first = "count"
                                THEN countDocuments(query) ELSE 0]
      /\ UNCHANGED <<posts, nextId, users>>

\* another client's operation is executed between the two queries
writeMeanwhile ==
  /\ inFlight
  /\ \/ \E data \in PostData : createPostWrite(data)
     \/ \E id \in Ids : statusWrite(id, "approved")
     \/ \E id \in Ids : statusWrite(id, "rejected")
     \/ \E id \in Ids : deletePostWrite(id, postById(id).authorId, "user")
  /\ UNCHANGED resp

\* the store executes the other query, and the handler answers
endSearch ==
  /\ inFlight
  /\ LET params == searchParams(resp.req)
         query == buildQuery(params)
     IN  \E order \in StoreOrders(query, buildSort(params.sortBy)) :
           resp' = searchPostsReply(
                     resp.req,
                     IF resp.first = "find"
                       THEN resp.fetched ELSE findCandidates(params, order),
                     IF resp.first = "count"
                       THEN resp.total ELSE countDocuments(query))
  /\ UNCHANGED <<posts, nextId, users>>

NextConcurrent ==
  \/ \E data \in PostData : idle /\ createPost(data)
  \/ \E id \in Ids : idle /\ approvePost(id)
  \/ \E q \in ConcurrentRequests : beginSearch(q)
  \/ writeMeanwhile
  \/ endSearch
  \/ finish

SpecConcurrent == Init /\ [][NextConcurrent]_vars

\* C27: when approve, reject, create or delete operations interleave with
\* one search whose find and count may observe different store states, the
\* response still has no more listings than pagination.totalCount, and its
\* page is not empty whenever the page number is at most the number of
\* pages.
C27_ResponseConsistentUnderWrites ==
  (resp.kind = "searchPosts" /\ resp.code = 200
     /\ resp.req \in ConcurrentRequests) =>
    /\ Len(resp.data) <= resp.pagination.total
    /\ (resp.pagination.page <= resp.pagination.totalPages
          => Len(resp.data) > 0)

\* C28: in every search response pagination.count is the number of listings
\* in the returned array and is at most limit, in relevance mode as in the
\* direct-fetch modes.
C28_CountIsPageLength ==
  (isSearch /\ resp.req \in ModeRequests) =>
    /\ resp.count = Len(resp.data)
    /\ resp.count <= resp.pagination.limit

(***************************************************************************)
(* Free text that holds a pattern character                                *)
(***************************************************************************)
PatternRequests ==
  {[NoRequest EXCEPT !.search = t, !.sortBy = s] :
     t \in {<<"m">>, <<".">>, <<"a", ".">>}, s \in {"", "price_asc"}}

NextPattern ==
  \/ \E data \in PostData : idle /\ createPost(data)
  \/ \E id \in Ids : idle /\ approvePost(id)
  \/ \E q \in PatternRequests : idle /\ searchPosts(q, "ok")
  \/ finish

SpecPattern == Init /\ [][NextPattern]_vars

\* C29: the text predicate and the scorer examine the same seven fields, so
\* every listing returned for a request with free text has a relevance
\* score of at least 3 points: some text signal of the scorer fires for
\* every listing the predicate admitted.
C29_AdmittedListingScores ==
  (isSearch /\ resp.req \in PatternRequests) =>
    \A i \in 1..Len(resp.data) : resp.data[i].relevanceScore >= 300

====
